---- MODULE Spec2Model ----
(***************************************************************************)
(* A model of solver.py, the "Are You the One?" solver.                    *)
(*                                                                         *)
(* Participants are the integers 1..n.  A Python dict is an insertion-     *)
(* ordered sequence of <<key, value>> entries when its order can matter    *)
(* (the weekly guesses, the truth built by _generate_random_pairing) and a *)
(* function from keys to values when it cannot (the candidate dicts built  *)
(* by dict(p), whose entry order is the hash order of a set).  A pairing   *)
(* returned by _get_all_possible_pairings is a set of ordered pairs.  The  *)
(* outcome of a call is a record: [kind |-> "return", value |-> v] or      *)
(* [kind |-> "raise", error |-> e].                                        *)
(***************************************************************************)
EXTENDS Integers, Sequences, FiniteSets, TLC

\* ------------------------------------------------------------------ bounds
\* current_possibilities: participants, forced pairs, forbidden pairs, groups
MaxPeople == 4
MaxMatch == 2
MaxNotMatch == 1
MaxGroups == 1
\* evidence filter: participant pairs, weeks of evidence, and how many of the
\* participants' Matchings (the first ones the Generator lists) serve as guesses
MaxPairs == 2
MaxWeeks == 2
MaxGuessKinds == 3
\* n_guesses and the queries: participant count
MaxContestants == 6
\* queries: size of the candidate list, how many of the Generator's Matchings
\* the candidates are taken from, and the sample size
MaxCands == 3
MaxPool == 15
MaxSample == 1
\* boundary validation: participants and entries of the weekly guess
ValPeople == 4
\* _get_lights on its own: participant pairs
LightsPairs == 3

\* An identifier that is never a declared participant
Unknown == ValPeople + 1

VARIABLES
  pc,                \* position of the running call
  names,             \* current_possibilities / n_guesses: the participants
  weekly_pairings,   \* current_possibilities: the weekly guesses
  lights,            \* current_possibilities: list of scores; n_guesses: last score
  not_match,         \* current_possibilities: forbidden pairs
  match,             \* current_possibilities: forced pairs
  exclusive_groups,  \* current_possibilities: exclusion groups
  pairings,          \* the list returned by _get_all_possible_pairings / the
                     \* candidate list given to a query
  pairings_dicts,    \* the candidate dicts (possibilities_dicts in n_guesses)
  idx,               \* index of the week / candidate being processed
  people,            \* _generate_random_pairing: names not yet paired
  truth,             \* n_guesses: the hidden pairing (pairs, while it is built)
  guess,             \* n_guesses: the guess of the current round
  guesses,           \* n_guesses: rounds played
  min_lights,        \* get_optimal_pairing: best objective so far
  min_pairing,       \* get_optimal_pairing: best candidate so far
  query,             \* the query being answered and its arguments
  result             \* outcome of the call

vars == <<pc, names, weekly_pairings, lights, not_match, match, exclusive_groups,
          pairings, pairings_dicts, idx, people, truth, guess, guesses,
          min_lights, min_pairing, query, result>>

None == "None"
NoResult == [kind |-> "none"]
Return(v) == [kind |-> "return", value |-> v]
Raise(e, f) == [kind |-> "raise", error |-> e, at |-> f]

\* ------------------------------------------------------- sequence helpers
Range(s) == {s[i] : i \in DOMAIN s}

RemoveAt(s, i) == [j \in 1..(Len(s) - 1) |-> IF j < i THEN s[j] ELSE s[j + 1]]

IndexOf(s, x) == CHOOSE i \in DOMAIN s : s[i] = x /\ \A j \in 1..(i - 1) : s[j] # x

\* list.remove(x), for x in the list
Remove(s, x) == RemoveAt(s, IndexOf(s, x))

RECURSIVE Concat(_)
Concat(ss) == IF Len(ss) = 0 THEN <<>> ELSE Head(ss) \o Concat(Tail(ss))

RECURSIVE SumSeq(_)
SumSeq(s) == IF Len(s) = 0 THEN 0 ELSE Head(s) + SumSeq(Tail(s))

\* All orders in which the elements of a finite set can be iterated
RECURSIVE Orders(_)
Orders(S) == IF S = {} THEN {<<>>}
             ELSE UNION {{<<x>> \o o : o \in Orders(S \ {x})} : x \in S}

\* range(n) as the list 1..n of participants
NameList(n) == [i \in 1..n |-> i]

\* --------------------------------------------------------- ordered dicts
Keys(d) == {d[i][1] : i \in DOMAIN d}
Values(d) == {d[i][2] : i \in DOMAIN d}
Get(d, k) == d[CHOOSE i \in DOMAIN d : d[i][1] = k][2]

\* d[k] = v: an existing key keeps its position, a new key goes last
Put(d, k, v) == IF k \in Keys(d)
                THEN [i \in DOMAIN d |-> IF d[i][1] = k THEN <<k, v>> ELSE d[i]]
                ELSE Append(d, <<k, v>>)

\* The order-free view of a dict
AsMap(d) == [k \in Keys(d) |-> Get(d, k)]

\* ------------------------------------------------------ Feedback Evaluator
\* _get_lights raises KeyError when the guess has a key the truth lacks
LightsKeyError(g, t) == \E p \in DOMAIN g : p \notin DOMAIN t

GetLightsPerParticipant(g, t) ==
  Cardinality({p \in DOMAIN g : g[p] = t[p]})

\* _get_lights: int(correct / 2), correct counting the keys p of the guess
\* with guess[p] == truth[p]
GetLights(g, t) ==
  Cardinality({p \in DOMAIN g : g[p] = t[p]}) \div 2

CorrectNumberAtLeast(g, t, actually_correct) == GetLights(g, t) >= actually_correct

\* _correct_number
CorrectNumber(g, t, actually_correct) == GetLights(g, t) = actually_correct

\* -------------------------------------------------------- Matching Generator
MaxSize(lst) == CHOOSE m \in {Cardinality(lst[i]) : i \in DOMAIN lst} :
                  \A i \in DOMAIN lst : Cardinality(lst[i]) <= m

\* _weed_out_wrong_size
WeedOutWrongSize(lst) ==
  IF Len(lst) <= 1 THEN lst
  ELSE SelectSeq(lst, LAMBDA s : Cardinality(s) = MaxSize(lst))

BothWays(a, b) == {<<a, b>>, <<b, a>>}

\* The body of _get_all_possible_pairings from `pairings = []` to the end of
\* the loop over partners, for a non-empty clone; Enumerate is the recursive
\* call (no forced pairs), which returns [] for an empty list.
RECURSIVE EnumerateFrom(_, _, _)
Enumerate(ppl, exclude, groups) ==
  IF Len(ppl) = 0 THEN <<>> ELSE EnumerateFrom(ppl, exclude, groups)

EnumerateFrom(clone0, exclude, groups) ==
  LET first_person == Head(clone0)
      clone == Tail(clone0)
      Branch(i) ==
        LET other_person == clone[i]
            next_group == RemoveAt(clone, i)
        IN  IF <<first_person, other_person>> \in exclude
               \/ <<other_person, first_person>> \in exclude
            THEN <<>>
            ELSE IF \E j \in DOMAIN groups :
                      first_person \in groups[j] /\ other_person \in groups[j]
            THEN <<>>
            ELSE LET current_group ==
                       WeedOutWrongSize(Enumerate(next_group, exclude, groups))
                 IN  IF Len(current_group) = 0
                     THEN <<BothWays(first_person, other_person)>>
                     ELSE [j \in DOMAIN current_group |->
                            current_group[j] \cup BothWays(first_person, other_person)]
  IN  Concat([i \in DOMAIN clone |-> Branch(i)])

\* Lines 268-273: remove the names of the forced pairs, visited in the order
\* `inc`.  `b in people` tests the original list, so clone.remove(b) raises
\* ValueError when b has already left the clone.
RECURSIVE RemoveIncluded(_, _, _)
RemoveIncluded(ppl, clone, inc) ==
  IF Len(inc) = 0 THEN [error |-> None, clone |-> clone]
  ELSE LET a == Head(inc)[1]
           b == Head(inc)[2]
           c1 == IF a \in Range(clone) THEN Remove(clone, a) ELSE clone
       IN  IF b \in Range(ppl)
           THEN IF b \in Range(c1)
                THEN RemoveIncluded(ppl, Remove(c1, b), Tail(inc))
                ELSE [error |-> "ValueError", clone |-> c1]
           ELSE RemoveIncluded(ppl, c1, Tail(inc))

\* Lines 302-306: add the known pairings to every pairing
AddIncluded(prs, include) ==
  [j \in DOMAIN prs |->
     prs[j] \cup UNION {BothWays(p[1], p[2]) : p \in include}]

\* _get_all_possible_pairings(people, include, exclude, exclusive_groups);
\* `inc` is the order in which the set `include` is iterated
GetAllPossiblePairings(ppl, inc, exclude, groups) ==
  IF Len(ppl) = 0 THEN Return(<<>>)
  ELSE LET r == RemoveIncluded(ppl, ppl, inc)
       IN  IF r.error # None THEN Raise(r.error, "_get_all_possible_pairings")
           ELSE IF Len(r.clone) = 0
           THEN Raise("IndexError", "_get_all_possible_pairings")
           ELSE Return(AddIncluded(EnumerateFrom(r.clone, exclude, groups),
                                   Range(inc)))

\* dict(p) for a set p of pairs: one value per first component; when a first
\* component has several partners the one kept depends on the set's order
DictsOf(p) ==
  LET ks == {e[1] : e \in p}
      Partners(k) == {e[2] : e \in {x \in p : x[1] = k}}
  IN  IF \A k \in ks : Cardinality(Partners(k)) = 1
      THEN {[k \in ks |-> CHOOSE v \in Partners(k) : TRUE]}
      ELSE {f \in [ks -> {e[2] : e \in p}] : \A k \in ks : f[k] \in Partners(k)}

\* The lists [dict(p) for p in pairings] that line 58 can build
RECURSIVE DictLists(_)
DictLists(prs) ==
  IF Len(prs) = 0 THEN {<<>>}
  ELSE {<<d>> \o rest : d \in DictsOf(Head(prs)), rest \in DictLists(Tail(prs))}

\* ------------------------------------------------------ boundary validation
\* _enforce_symmetric_pairing, first loop: some earlier key k has value p
\* while pairing[p] != k
AsymmetryFound(d) ==
  \E j \in DOMAIN d : \E i \in 1..(j - 1) :
     d[i][2] = d[j][1] /\ d[j][2] # d[i][1]

\* _enforce_symmetric_pairing, second loop: pairing[pairing[k]] = k for the
\* keys the dict had before the loop
RECURSIVE AddReverse(_, _)
AddReverse(d, ks) ==
  IF Len(ks) = 0 THEN d
  ELSE AddReverse(Put(d, Get(d, Head(ks)), Head(ks)), Tail(ks))

\* _enforce_symmetric_pairing: whether it returns, and the dict it leaves
EnforceSymmetricPairing(d) ==
  IF AsymmetryFound(d) THEN [ok |-> FALSE, pairing |-> d]
  ELSE LET e == AddReverse(d, [i \in DOMAIN d |-> d[i][1]])
       IN  [ok |-> Keys(e) = Values(e), pairing |-> e]

\* _validate_pairing_inputs, the loop over weekly_pairings from week i on
RECURSIVE ValidateWeeks(_, _, _)
ValidateWeeks(weeks, i, nameset) ==
  IF i > Len(weeks) THEN [error |-> None, weeks |-> weeks]
  ELSE LET e == EnforceSymmetricPairing(weeks[i])
           w == [weeks EXCEPT ![i] = e.pairing]
       IN  IF ~e.ok THEN [error |-> "ValueError", weeks |-> w]
           ELSE IF \E k \in Keys(e.pairing) :
                     k \notin nameset \/ Get(e.pairing, k) \notin nameset
           THEN [error |-> "ValueError", weeks |-> w]
           ELSE ValidateWeeks(w, i + 1, nameset)

\* _validate_pairing_inputs: the error raised, if any, and the weekly guesses
\* as the call leaves them
ValidatePairingInputs(nms, weeks, lts, nm, m, groups) ==
  IF Len(weeks) # Len(lts) THEN [error |-> "ValueError", weeks |-> weeks]
  ELSE IF Cardinality(Range(nms)) # Len(nms)
  THEN [error |-> "ValueError", weeks |-> weeks]
  ELSE LET v == ValidateWeeks(weeks, 1, Range(nms))
       IN  IF v.error # None THEN v
           ELSE IF \E p \in nm \cup m : p[1] \notin Range(nms) \/ p[2] \notin Range(nms)
           THEN [error |-> "ValueError", weeks |-> v.weeks]
           ELSE IF \E j \in DOMAIN groups : \E n \in groups[j] : n \notin Range(nms)
           THEN [error |-> "ValueError", weeks |-> v.weeks]
           ELSE v

\* ------------------------------------------------- current_possibilities
SubsetsUpTo(S, k) == {T \in SUBSET S : Cardinality(T) <= k}

SeqsUpTo(S, k) == UNION {[1..m -> S] : m \in 0..k}

\* Variables of the other calls, which a call leaves alone
SimIdle == /\ people = None /\ truth = None /\ guess = None /\ guesses = None
QueryIdle == /\ min_lights = None /\ min_pairing = None /\ query = None
CPIdle == /\ weekly_pairings = None /\ not_match = None /\ match = None
          /\ exclusive_groups = None

\* Lines 41-46: validate the inputs; the weekly guesses are rewritten in place
CPValidate ==
  /\ pc = "cp_validate"
  /\ LET v == ValidatePairingInputs(names, weekly_pairings, lights,
                                    not_match, match, exclusive_groups)
     IN  /\ weekly_pairings' = v.weeks
         /\ IF v.error # None
            THEN /\ result' = Raise(v.error, "_validate_pairing_inputs")
                 /\ pc' = "done"
            ELSE /\ result' = result
                 /\ pc' = "cp_enumerate"
  /\ UNCHANGED <<names, lights, not_match, match, exclusive_groups, pairings,
                 pairings_dicts, idx, people, truth, guess, guesses,
                 min_lights, min_pairing, query>>

\* Lines 49-54: enumerate the pairings; set(match) is iterated in some order
CPEnumerate ==
  /\ pc = "cp_enumerate"
  /\ \E inc \in Orders(match) :
       LET r == GetAllPossiblePairings(names, inc, not_match, exclusive_groups)
       IN  IF r.kind = "raise"
           THEN /\ result' = r
                /\ pc' = "done"
                /\ pairings' = pairings
           ELSE /\ pairings' = r.value
                /\ pc' = "cp_dicts"
                /\ result' = result
  /\ UNCHANGED <<names, weekly_pairings, lights, not_match, match,
                 exclusive_groups, pairings_dicts, idx, people, truth, guess,
                 guesses, min_lights, min_pairing, query>>

\* Line 58: pairings_dicts = [dict(p) for p in pairings]
CPToDicts ==
  /\ pc = "cp_dicts"
  /\ pairings_dicts' \in DictLists(pairings)
  /\ idx' = 1
  /\ pc' = "cp_filter"
  /\ UNCHANGED <<names, weekly_pairings, lights, not_match, match,
                 exclusive_groups, pairings, people, truth, guess, guesses,
                 min_lights, min_pairing, query, result>>

WeededInverted(cands, g, k) == SelectSeq(cands, LAMBDA p : ~CorrectNumber(g, p, k))

WeededNothing(cands, g, k) == cands

\* The candidates p with _correct_number(guess=g, truth=p, actually_correct=k)
Weeded(cands, g, k) == SelectSeq(cands, LAMBDA p : CorrectNumber(g, p, k))

\* Lines 62-72: one week of the filtering loop (idx counts weeks from 1)
CPFilterWeek ==
  /\ pc = "cp_filter"
  /\ idx <= Len(weekly_pairings)
  /\ LET week == AsMap(weekly_pairings[idx])
     IN  IF \E i \in DOMAIN pairings_dicts : LightsKeyError(week, pairings_dicts[i])
         THEN /\ result' = Raise("KeyError", "_get_lights")
              /\ pc' = "done"
              /\ UNCHANGED <<pairings_dicts, idx>>
         ELSE /\ pairings_dicts' = Weeded(pairings_dicts, week, lights[idx])
              /\ idx' = idx + 1
              /\ UNCHANGED <<pc, result>>
  /\ UNCHANGED <<names, weekly_pairings, lights, not_match, match,
                 exclusive_groups, pairings, people, truth, guess, guesses,
                 min_lights, min_pairing, query>>

\* Line 73
CPReturn ==
  /\ pc = "cp_filter"
  /\ idx > Len(weekly_pairings)
  /\ result' = Return(pairings_dicts)
  /\ pc' = "done"
  /\ UNCHANGED <<names, weekly_pairings, lights, not_match, match,
                 exclusive_groups, pairings, pairings_dicts, idx, people, truth,
                 guess, guesses, min_lights, min_pairing, query>>

NextCP == CPValidate \/ CPEnumerate \/ CPToDicts \/ CPFilterWeek \/ CPReturn

CPStart ==
  /\ pc = "cp_validate"
  /\ pairings = <<>> /\ pairings_dicts = <<>> /\ idx = 0
  /\ result = NoResult
  /\ SimIdle /\ QueryIdle

\* A weekly guess naming each pair once: {1: 2, 3: 4, ...}
OneWayGuess(n) == [i \in 1..(n \div 2) |-> <<2 * i - 1, 2 * i>>]

\* Calls that exercise the Generator: any constraint set within the bounds,
\* with no evidence or one week of it
InitGen ==
  /\ \E n \in 0..MaxPeople :
       /\ names = NameList(n)
       /\ match \in SubsetsUpTo((1..n) \X (1..n), MaxMatch)
       /\ not_match \in SubsetsUpTo((1..n) \X (1..n), MaxNotMatch)
       /\ exclusive_groups \in SeqsUpTo({g \in SUBSET (1..n) : Cardinality(g) >= 2},
                                        MaxGroups)
       /\ \/ weekly_pairings = <<>> /\ lights = <<>>
          \/ n >= 2 /\ weekly_pairings = <<OneWayGuess(n)>> /\ lights = <<0>>
  /\ CPStart

SpecGen == InitGen /\ [][NextCP]_vars

\* ------------------------------------------------ properties of the Generator
\* The perfect matchings of a set of participants, as symmetric lookups
\* (the functions f on S with f[a] # a and f[f[a]] = a for every a), built
\* by pairing the least participant with each of the others
RECURSIVE PerfectMatchings(_)
PerfectMatchings(S) ==
  IF S = {} THEN {<<>>}
  ELSE LET a == CHOOSE x \in S : \A y \in S : x <= y
       IN  UNION {{[x \in S |-> IF x = a THEN b ELSE IF x = b THEN a ELSE f[x]] :
                     f \in PerfectMatchings(S \ {a, b})} : b \in S \ {a}}

PairsOf(f) == {<<a, f[a]>> : a \in DOMAIN f}

\* A set of ordered pairs that is a perfect matching of S
IsPerfectPairing(p, S) == \E f \in PerfectMatchings(S) : p = PairsOf(f)

\* The Generator has returned `pairings`
GeneratorReturned == pc \in {"cp_dicts", "cp_filter"}
                     \/ (pc = "done" /\ result.kind = "return")
GeneratorRaised == /\ pc = "done" /\ result.kind = "raise"
                   /\ result.at = "_get_all_possible_pairings"

InGroup(a, b) == \E j \in DOMAIN exclusive_groups :
                   a \in exclusive_groups[j] /\ b \in exclusive_groups[j]

\* The constraint set is free of conflicts: the forced pairs are pairs of two
\* different participants, no participant is in two of them, and none of them
\* is forbidden or inside an exclusion group
ConsistentConstraints ==
  /\ \A p \in match : p[1] # p[2]
  /\ \A p, q \in match : p # q => {p[1], p[2]} \cap {q[1], q[2]} = {}
  /\ \A p \in match : /\ <<p[1], p[2]>> \notin not_match
                      /\ <<p[2], p[1]>> \notin not_match
                      /\ ~InGroup(p[1], p[2])

Unresolved == Range(names) \ UNION {{p[1], p[2]} : p \in match}

\* The perfect matchings the constraint set allows
Allowed ==
  {f \in PerfectMatchings(Range(names)) :
     /\ \A p \in match : f[p[1]] = p[2]
     /\ \A a \in Range(names) :
          /\ <<a, f[a]>> \notin not_match
          /\ <<f[a], a>> \notin not_match
          /\ ~InGroup(a, f[a])}

\* C1: every Matching the Generator returns, and every dict that
\* current_possibilities returns when there is no weekly evidence, is a
\* perfect matching of exactly the given participants: total, symmetric and
\* without fixed point, so no participant is left unpaired.
C1_EveryMatchingPerfect ==
  /\ GeneratorReturned =>
       \A i \in DOMAIN pairings : IsPerfectPairing(pairings[i], Range(names))
  /\ (pc = "done" /\ result.kind = "return" /\ weekly_pairings = <<>>) =>
       \A i \in DOMAIN result.value :
          result.value[i] \in PerfectMatchings(Range(names))

\* C2: for a conflict-free constraint set that leaves an even number of
\* participants unresolved, the Generator returns (it does not raise) exactly
\* the perfect matchings that contain every forced pair, no forbidden pair
\* and no pair inside an exclusion group, each once; in particular exactly
\* one matching when no participant is unresolved.
C2_AllMatchingsOnce ==
  (ConsistentConstraints /\ Cardinality(Unresolved) % 2 = 0) =>
     /\ ~GeneratorRaised
     /\ GeneratorReturned =>
          /\ Range(pairings) = {PairsOf(f) : f \in Allowed}
          /\ Len(pairings) = Cardinality(Allowed)
          /\ (Unresolved = {} => Len(pairings) = 1)

\* C3: every forced pair is present, in both directions, in every Matching
\* the Generator returns, and no forbidden pair and no pair of two members
\* of one exclusion group is present in any of them.
C3_ConstraintsHonoured ==
  GeneratorReturned =>
    \A i \in DOMAIN pairings :
       /\ \A p \in match : BothWays(p[1], p[2]) \subseteq pairings[i]
       /\ \A p \in not_match : BothWays(p[1], p[2]) \cap pairings[i] = {}
       /\ \A p \in pairings[i] : ~InGroup(p[1], p[2])

\* C4: when the number of participants left after removing the forced pairs
\* is odd, the Generator fails with an error: it returns nothing.
C4_OddCountRejected ==
  (ConsistentConstraints /\ Cardinality(Unresolved) % 2 = 1) =>
     ~GeneratorReturned

\* The constraint set holds a conflict: a forced pair is forbidden, a forced
\* pair has both members in one exclusion group, or a participant is in more
\* than one forced pair
ConstraintConflict ==
  \/ \E p \in match : \/ <<p[1], p[2]>> \in not_match
                       \/ <<p[2], p[1]>> \in not_match
  \/ \E p \in match : InGroup(p[1], p[2])
  \/ \E p, q \in match : p # q /\ {p[1], p[2]} \cap {q[1], q[2]} # {}

\* C11: on a constraint set with a conflict the Generator path fails with a
\* constraint-conflict error raised by the validation, before anything is
\* enumerated: no list of matchings is ever computed or returned.
C11_ConflictRejected ==
  ConstraintConflict =>
     /\ ~GeneratorReturned
     /\ pairings = <<>>
     /\ pc = "done" => /\ result.kind = "raise"
                       /\ result.at = "_validate_pairing_inputs"

\* ------------------------------------------------------ the Evidence Filter
\* A dict with the entries of f in key order
EntriesOf(f) ==
  LET ks == DOMAIN f
      RECURSIVE Sorted(_)
      Sorted(K) == IF K = {} THEN <<>>
                   ELSE LET k == CHOOSE x \in K : \A y \in K : x <= y
                        IN  <<k>> \o Sorted(K \ {k})
      order == Sorted(ks)
  IN  [i \in DOMAIN order |-> <<order[i], f[order[i]]>>]

\* The guesses of the filter's calls: full dicts of Matchings of n participants
GuessChoices(n) ==
  LET all == Enumerate(NameList(n), {}, <<>>)
  IN  {EntriesOf(CHOOSE d \in DictsOf(all[i]) : TRUE) :
         i \in {j \in DOMAIN all : j <= MaxGuessKinds}}

\* Calls that exercise the filter: no constraints, up to MaxWeeks weeks whose
\* guesses are Matchings of the participants, any score for each
InitFilter ==
  /\ \E k \in 1..MaxPairs :
       /\ names = NameList(2 * k)
       /\ weekly_pairings \in SeqsUpTo(GuessChoices(2 * k), MaxWeeks)
       /\ lights \in [DOMAIN weekly_pairings -> 0..k]
  /\ match = {} /\ not_match = {} /\ exclusive_groups = <<>>
  /\ CPStart

SpecFilter == InitFilter /\ [][NextCP]_vars

\* The filtering loop of lines 62-72 over a whole list of evidence
RECURSIVE ApplyEvidence(_, _, _)
ApplyEvidence(cands, weeks, scores) ==
  IF Len(weeks) = 0 THEN cands
  ELSE ApplyEvidence(Weeded(cands, AsMap(Head(weeks)), Head(scores)),
                     Tail(weeks), Tail(scores))

\* The candidates the filter started from: the dicts of the Generator's list
Candidates == [i \in DOMAIN pairings |-> CHOOSE d \in DictsOf(pairings[i]) : TRUE]

\* The common pairs of two symmetric lookups over the same participants
CommonPairs(g, t) == {{a, g[a]} : a \in {x \in DOMAIN g : g[x] = t[x]}}

ConsistentWithAll(c) ==
  \A w \in DOMAIN weekly_pairings :
     Cardinality(CommonPairs(AsMap(weekly_pairings[w]), c)) = lights[w]

\* C7: over a Candidate Set of valid Matchings the filtering loop returns
\* exactly the candidates whose score against every guess equals the observed
\* score, in their original order; every reordering of the evidence gives the
\* same list; and the call returns (an empty list included), it never raises.
C7_FilterIsConjunction ==
  (pc = "done" /\ \A i \in DOMAIN pairings : IsPerfectPairing(pairings[i], Range(names))) =>
     /\ result.kind = "return"
     /\ result.value = SelectSeq(Candidates, ConsistentWithAll)
     /\ \A o \in Orders(DOMAIN weekly_pairings) :
          ApplyEvidence(Candidates,
                        [i \in DOMAIN o |-> weekly_pairings[o[i]]],
                        [i \in DOMAIN o |-> lights[o[i]]]) = result.value

\* Two different weeks of evidence have left some, not all, of the candidates
C7_Witness ==
  /\ pc = "done" /\ result.kind = "return"
  /\ Len(weekly_pairings) = 2 /\ weekly_pairings[1] # weekly_pairings[2]
  /\ Len(result.value) > 0 /\ Len(result.value) < Len(pairings)
  /\ Len(ApplyEvidence(Candidates, <<weekly_pairings[1]>>, <<lights[1]>>))
       > Len(result.value)

\* An empty result is returned as an empty list
C7_EmptyWitness ==
  pc = "done" /\ result.kind = "return" /\ result.value = <<>> /\ Len(pairings) > 0

\* ------------------------------------------------ validation at the boundary
\* The dicts a caller can write: distinct keys among the participants, any
\* identifier as value, in any order of insertion
RawDicts(n) ==
  {d \in SeqsUpTo((1..n) \X ((1..n) \cup {Unknown}), n) :
     \A i, j \in DOMAIN d : i # j => d[i][1] # d[j][1]}

\* Calls that exercise the validation of a weekly guess
InitVal ==
  /\ names = NameList(ValPeople)
  /\ \E d \in RawDicts(ValPeople) : weekly_pairings = <<d>>
  /\ lights = <<0>>
  /\ match = {} /\ not_match = {} /\ exclusive_groups = <<>>
  /\ CPStart

SpecVal == InitVal /\ [][NextCP]_vars

\* Some a maps to b while b maps to someone other than a
Asymmetric(d) ==
  \E a \in Keys(d) : Get(d, a) \in Keys(d) /\ Get(d, Get(d, a)) # a

\* The guess does not cover every declared participant
Partial(d) == Keys(d) # Range(names)

\* C6: validation rejects with an error every weekly guess that is asymmetric
\* or partial; none is accepted (rewritten or not) and used for filtering.
C6_BadGuessRejected ==
  [][(pc = "cp_validate"
      /\ \E w \in DOMAIN weekly_pairings :
           Asymmetric(weekly_pairings[w]) \/ Partial(weekly_pairings[w]))
     => (pc' = "done" /\ result'.kind = "raise")]_vars

\* --------------------------------------------------- _get_lights on its own
\* A call _get_lights(guess, truth) on two Matchings of the same participants
InitLights ==
  /\ pc = "gl_call"
  /\ \E k \in 1..LightsPairs :
       /\ names = NameList(2 * k)
       /\ guess \in PerfectMatchings(1..(2 * k))
       /\ truth \in PerfectMatchings(1..(2 * k))
  /\ lights = None /\ pairings = None /\ pairings_dicts = None /\ idx = None
  /\ people = None /\ guesses = None
  /\ result = NoResult
  /\ CPIdle /\ QueryIdle

\* Lines 335-344
GetLightsCall ==
  /\ pc = "gl_call"
  /\ result' = IF LightsKeyError(guess, truth)
               THEN Raise("KeyError", "_get_lights")
               ELSE Return(GetLights(guess, truth))
  /\ pc' = "done"
  /\ UNCHANGED <<names, weekly_pairings, lights, not_match, match,
                 exclusive_groups, pairings, pairings_dicts, idx, people, truth,
                 guess, guesses, min_lights, min_pairing, query>>

NextLights == GetLightsCall

SpecLights == InitLights /\ [][NextLights]_vars

\* C8: for two Matchings over the same participants _get_lights returns the
\* number of unordered pairs present in both, and for a guess compared with
\* itself half the number of participants.
C8_LightsCountsPairs ==
  pc = "done" =>
     /\ result.kind = "return"
     /\ result.value = Cardinality(CommonPairs(guess, truth))
     /\ (guess = truth => 2 * result.value = Len(names))

\* Two different Matchings that share exactly one pair have been scored
C8_Witness ==
  /\ pc = "done" /\ guess # truth /\ result.kind = "return"
  /\ Cardinality(CommonPairs(guess, truth)) = 1

\* ------------------------------------------------------------- n_guesses
\* What _enforce_symmetric_pairing can do to a dict whose entries are those
\* of m, in whatever order the dict holds them: whether it returns, and the
\* entries it leaves
EnforceOutcomes(m) ==
  {LET e == EnforceSymmetricPairing([i \in DOMAIN o |-> <<o[i], m[o[i]]>>])
   IN  [ok |-> e.ok, pairing |-> AsMap(e.pairing)] : o \in Orders(DOMAIN m)}

\* The dicts n_guesses can hold as candidates
SimCandidates ==
  UNION {UNION {DictsOf(p) : p \in Range(Enumerate(NameList(n), {}, <<>>))} :
           n \in 0..MaxContestants}

EnforceTable == [m \in SimCandidates |-> EnforceOutcomes(m)]


InitSim ==
  /\ pc = "ng_pairing"
  /\ \E n \in 0..MaxContestants : names = NameList(n)
  /\ people = names
  /\ truth = <<>>
  /\ guess = None /\ guesses = None /\ lights = None
  /\ pairings = <<>> /\ pairings_dicts = <<>> /\ idx = None
  /\ result = NoResult
  /\ CPIdle /\ QueryIdle

\* Lines 327-331: one iteration of _generate_random_pairing; the second pop
\* raises IndexError when the first one has emptied the list
GenerateRandomPairingStep ==
  /\ pc = "ng_pairing"
  /\ Len(people) > 0
  /\ \E i \in DOMAIN people :
       LET a == people[i]
           rest == RemoveAt(people, i)
       IN  IF Len(rest) = 0
           THEN /\ result' = Raise("IndexError", "_generate_random_pairing")
                /\ pc' = "done"
                /\ people' = rest
                /\ truth' = truth
           ELSE \E j \in DOMAIN rest :
                  /\ people' = RemoveAt(rest, j)
                  /\ truth' = Put(Put(truth, a, rest[j]), rest[j], a)
                  /\ UNCHANGED <<pc, result>>
  /\ UNCHANGED <<names, weekly_pairings, lights, not_match, match,
                 exclusive_groups, pairings, pairings_dicts, idx, guess,
                 guesses, min_lights, min_pairing, query>>

\* Lines 149-150: the pairing is complete; _enforce_symmetric_pairing(truth)
EnforceTruth ==
  /\ pc = "ng_pairing"
  /\ Len(people) = 0
  /\ LET e == EnforceSymmetricPairing(truth)
     IN  IF e.ok
         THEN /\ truth' = AsMap(e.pairing)
              /\ pc' = "ng_enumerate"
              /\ result' = result
         ELSE /\ truth' = e.pairing
              /\ pc' = "done"
              /\ result' = Raise("ValueError", "_enforce_symmetric_pairing")
  /\ UNCHANGED <<names, weekly_pairings, lights, not_match, match,
                 exclusive_groups, pairings, pairings_dicts, idx, people, guess,
                 guesses, min_lights, min_pairing, query>>

\* Lines 153-159
EnumeratePossibilities ==
  /\ pc = "ng_enumerate"
  /\ LET r == GetAllPossiblePairings(names, <<>>, {}, <<>>)
     IN  IF r.kind = "raise"
         THEN /\ result' = r
              /\ pc' = "done"
              /\ UNCHANGED <<pairings, pairings_dicts, guesses>>
         ELSE /\ pairings' = r.value
              /\ pairings_dicts' \in DictLists(r.value)
              /\ guesses' = 0
              /\ pc' = "ng_loop"
              /\ result' = result
  /\ UNCHANGED <<names, weekly_pairings, lights, not_match, match,
                 exclusive_groups, idx, people, truth, guess, min_lights,
                 min_pairing, query>>

\* Lines 160-177: one round; the guess is an element of the list, so what
\* _enforce_symmetric_pairing writes to it is written to the list
GuessRound ==
  /\ pc = "ng_loop"
  /\ Len(pairings_dicts) > 1
  /\ \E gi \in DOMAIN pairings_dicts :
       \E e \in EnforceTable[pairings_dicts[gi]] :
          IF ~e.ok
          THEN /\ result' = Raise("ValueError", "_enforce_symmetric_pairing")
               /\ pc' = "done"
               /\ guess' = e.pairing
               /\ pairings_dicts' = [pairings_dicts EXCEPT ![gi] = e.pairing]
               /\ UNCHANGED <<lights, guesses>>
          ELSE LET g == e.pairing
                   cands == [pairings_dicts EXCEPT ![gi] = g]
               IN  /\ guess' = g
                   /\ IF LightsKeyError(g, truth)
                         \/ \E i \in DOMAIN cands : LightsKeyError(g, cands[i])
                      THEN /\ result' = Raise("KeyError", "_get_lights")
                           /\ pc' = "done"
                           /\ pairings_dicts' = cands
                           /\ UNCHANGED <<lights, guesses>>
                      ELSE /\ lights' = GetLights(g, truth)
                           /\ pairings_dicts' = Weeded(cands, g, GetLights(g, truth))
                           /\ guesses' = guesses + 1
                           /\ UNCHANGED <<pc, result>>
  /\ UNCHANGED <<names, weekly_pairings, not_match, match, exclusive_groups,
                 pairings, idx, people, truth, min_lights, min_pairing, query>>

\* Lines 178-179: possibilities_dicts[0] is logged, then guesses is returned
ReturnGuesses ==
  /\ pc = "ng_loop"
  /\ Len(pairings_dicts) <= 1
  /\ result' = IF Len(pairings_dicts) = 0
               THEN Raise("IndexError", "n_guesses")
               ELSE Return(guesses)
  /\ pc' = "done"
  /\ UNCHANGED <<names, weekly_pairings, lights, not_match, match,
                 exclusive_groups, pairings, pairings_dicts, idx, people, truth,
                 guess, guesses, min_lights, min_pairing, query>>

NextSim == \/ GenerateRandomPairingStep
           \/ EnforceTruth
           \/ EnumeratePossibilities
           \/ GuessRound
           \/ ReturnGuesses

SpecSim == InitSim /\ [][NextSim]_vars

\* ------------------------------------------- properties of n_guesses
NumMatchings(n) == Cardinality(PerfectMatchings(1..n))

\* What holds while n_guesses runs on n > 0 contestants: the truth is among
\* the surviving candidates, every round played has removed a candidate, an
\* even n ends in a return of a count between
\* 0 (1 from four contestants on) and the number of matchings, and an odd n
\* ends in the IndexError of the second pop of _generate_random_pairing
C5_Safe ==
  LET n == Len(names)
  IN  n > 0 =>
        /\ pc = "ng_loop" =>
             /\ \E i \in DOMAIN pairings_dicts : pairings_dicts[i] = truth
             /\ guesses + Len(pairings_dicts) <= NumMatchings(n)
        /\ pc = "done" =>
             IF n % 2 = 0
             THEN /\ result.kind = "return"
                  /\ result.value >= (IF n >= 4 THEN 1 ELSE 0)
                  /\ (n = 2 => result.value = 0)
                  /\ result.value <= NumMatchings(n)
             ELSE result = Raise("IndexError", "_generate_random_pairing")

\* Position in the call, counted down to its end, and what is left to do there
Rank == CASE pc = "ng_pairing" -> 3
          [] pc = "ng_enumerate" -> 2
          [] pc = "ng_loop" -> 1
          [] OTHER -> 0
Left == CASE pc = "ng_pairing" -> Len(people)
          [] pc = "ng_loop" -> Len(pairings_dicts)
          [] OTHER -> 0
\* The rounds played so far
Round == IF pc = "ng_loop" THEN guesses ELSE -1

\* C5 (amended): n_guesses on a count > 0 always terminates: every step moves
\* the call on or leaves fewer names to pair or fewer candidates, so no run
\* has more steps than names and candidates.  On an even count it returns a
\* number of rounds that is 0 for two contestants, at least 1 otherwise, and
\* at most the number of perfect matchings, the truth staying among the
\* surviving candidates throughout; on an odd count it raises IndexError
\* while the truth is generated.
C5_SimulationTerminates ==
  /\ []C5_Safe
  /\ [][Rank' < Rank \/ (Rank' = Rank /\ Left' < Left)]_<<Rank, Left, Round>>

\* A run on six contestants that needed several rounds has returned
C5_Witness ==
  /\ pc = "done" /\ result.kind = "return"
  /\ Len(names) = 6 /\ result.value >= 3

\* C5 as stated: every call with a count > 0 returns a number of rounds that
\* is at least 1 and at most the number of perfect matchings.
C5_ReturnsAtLeastOne ==
  (pc = "done" /\ Len(names) > 0) =>
     /\ result.kind = "return"
     /\ result.value >= 1
     /\ result.value <= NumMatchings(Len(names))

\* ------------------------------------------------------------ the queries
\* float('inf'), the initial min_lights
Infinity == -1

\* m(p, k): the candidates that would show k lights for the guess p
Matches(p, cands, k) ==
  Cardinality({j \in DOMAIN cands : CorrectNumber(p, cands[j], k)})

\* Lines 132-136: the exact objective of the guess p
ExpectedSize(p, cands, n_contestants) ==
  SumSeq([k1 \in 1..((n_contestants \div 2) + 1) |->
            Matches(p, cands, k1 - 1) * Matches(p, cands, k1 - 1)])

\* Lines 124-130: the values the sampled objective can take; for each k the
\* `sample` draws are fresh, and a draw shows k lights only if some candidate
\* does and fails to only if some candidate does not
RECURSIVE SampledSums(_, _, _, _)
SampledSums(p, cands, sample, k) ==
  IF k < 0 THEN {0}
  ELSE LET m == Matches(p, cands, k)
           counts == IF m = 0 THEN {0}
                     ELSE IF m = Len(cands) THEN {sample}
                     ELSE 0..sample
       IN  {c * c + r : c \in counts, r \in SampledSums(p, cands, sample, k - 1)}

ExpectedSizes(p, cands, n_contestants, sample) ==
  IF sample # 0
  THEN SampledSums(p, cands, sample, n_contestants \div 2)
  ELSE {ExpectedSize(p, cands, n_contestants)}

ImprovesOrTies(expected_size, m) == m = Infinity \/ expected_size <= m

\* Line 137: expected_size < min_lights
Improves(expected_size, m) == m = Infinity \/ expected_size < m

\* The candidates of cands at the positions S, in their order
RECURSIVE Pick(_, _, _)
Pick(cands, S, i) ==
  IF i > Len(cands) THEN <<>>
  ELSE (IF i \in S THEN <<cands[i]>> ELSE <<>>) \o Pick(cands, S, i + 1)

\* The candidate lists given to the queries: what the filter can leave of the
\* Generator's list, the order kept
CandidateLists(n) ==
  LET all == CHOOSE l \in DictLists(Enumerate(NameList(n), {}, <<>>)) : TRUE
  IN  {Pick(all, S, 1) :
         S \in SubsetsUpTo({i \in DOMAIN all : i <= MaxPool}, MaxCands)}

\* A query on a candidate list; sample 0 stands for None (both are falsy)
InitQuery ==
  /\ pc = "q_call"
  /\ \E k \in 1..(MaxContestants \div 2) :
       /\ names = NameList(2 * k)
       /\ pairings_dicts \in CandidateLists(2 * k)
       /\ \/ \E b \in 2..(2 * k) : query = [op |-> "probability_of", a |-> 1, b |-> b]
          \/ query = [op |-> "get_probability_matrix"]
          \/ \E sm \in 0..MaxSample : query = [op |-> "get_optimal_pairing", sample |-> sm]
  /\ min_lights = None /\ min_pairing = None
  /\ idx = None /\ pairings = None /\ lights = None
  /\ result = NoResult
  /\ CPIdle /\ SimIdle

QueryUnchanged == UNCHANGED <<names, weekly_pairings, lights, not_match, match,
                              exclusive_groups, pairings, pairings_dicts,
                              people, truth, guess, guesses, query>>

\* Line 90: sum([p[a] == b for p in pairings]) / len(pairings), as the pair
\* <<numerator, denominator>>
Probability(cands, a, b) ==
  <<Cardinality({j \in DOMAIN cands : cands[j][a] = b}), Len(cands)>>

\* probability_of
ProbabilityOf ==
  /\ pc = "q_call" /\ query.op = "probability_of"
  /\ result' =
       IF \E j \in DOMAIN pairings_dicts : query.a \notin DOMAIN pairings_dicts[j]
       THEN Raise("KeyError", "probability_of")
       ELSE IF Len(pairings_dicts) = 0
       THEN Raise("ZeroDivisionError", "probability_of")
       ELSE Return(Probability(pairings_dicts, query.a, query.b))
  /\ pc' = "done"
  /\ UNCHANGED <<idx, min_lights, min_pairing>>
  /\ QueryUnchanged

\* get_probability_matrix
GetProbabilityMatrix ==
  /\ pc = "q_call" /\ query.op = "get_probability_matrix"
  /\ result' =
       IF Len(pairings_dicts) = 0
       THEN Raise("ValueError", "get_probability_matrix")
       ELSE LET ks == DOMAIN pairings_dicts[1]
            IN  IF \E j \in DOMAIN pairings_dicts : ~(ks \subseteq DOMAIN pairings_dicts[j])
                THEN Raise("KeyError", "probability_of")
                ELSE Return([n1 \in ks |-> [n2 \in ks |->
                               Probability(pairings_dicts, n1, n2)]])
  /\ pc' = "done"
  /\ UNCHANGED <<idx, min_lights, min_pairing>>
  /\ QueryUnchanged

\* get_optimal_pairing, lines 110-114
OptimalStart ==
  /\ pc = "q_call" /\ query.op = "get_optimal_pairing"
  /\ IF Len(pairings_dicts) < 1
     THEN /\ result' = Raise("ValueError", "get_optimal_pairing")
          /\ pc' = "done"
          /\ UNCHANGED <<idx, min_lights, min_pairing>>
     ELSE /\ min_lights' = Infinity
          /\ min_pairing' = None
          /\ idx' = 1
          /\ pc' = "op_loop"
          /\ result' = result
  /\ QueryUnchanged

\* get_optimal_pairing, lines 115-139: the candidate at position idx
OptimalStep ==
  /\ pc = "op_loop"
  /\ idx <= Len(pairings_dicts)
  /\ LET p == pairings_dicts[idx]
         n_contestants == Cardinality(DOMAIN pairings_dicts[1])
     IN  IF \E j \in DOMAIN pairings_dicts : LightsKeyError(p, pairings_dicts[j])
         THEN /\ result' = Raise("KeyError", "_get_lights")
              /\ pc' = "done"
              /\ UNCHANGED <<idx, min_lights, min_pairing>>
         ELSE \E expected_size \in
                   ExpectedSizes(p, pairings_dicts, n_contestants, query.sample) :
                /\ IF Improves(expected_size, min_lights)
                   THEN /\ min_pairing' = p
                        /\ min_lights' = expected_size
                   ELSE UNCHANGED <<min_lights, min_pairing>>
                /\ idx' = idx + 1
                /\ UNCHANGED <<pc, result>>
  /\ QueryUnchanged

\* get_optimal_pairing, line 140
OptimalReturn ==
  /\ pc = "op_loop"
  /\ idx > Len(pairings_dicts)
  /\ result' = Return(min_pairing)
  /\ pc' = "done"
  /\ UNCHANGED <<idx, min_lights, min_pairing>>
  /\ QueryUnchanged

NextQuery == \/ ProbabilityOf
             \/ GetProbabilityMatrix
             \/ OptimalStart
             \/ OptimalStep
             \/ OptimalReturn

SpecQuery == InitQuery /\ [][NextQuery]_vars

\* ------------------------------------------------ properties of the queries
\* sum over k = 0..floor(n/2) of m(g, k)^2, m(g, k) counting the candidates
\* that share exactly k pairs with g
Objective(g, cands) ==
  LET n == Cardinality(DOMAIN g)
      m(k) == Cardinality({j \in DOMAIN cands :
                             Cardinality(CommonPairs(g, cands[j])) = k})
      RECURSIVE Sum(_)
      Sum(k) == IF k < 0 THEN 0 ELSE m(k) * m(k) + Sum(k - 1)
  IN  Sum(n \div 2)

Minimizers(cands) ==
  {i \in DOMAIN cands :
     \A j \in DOMAIN cands : Objective(cands[i], cands) <= Objective(cands[j], cands)}

ExactOptimalDone ==
  /\ pc = "done" /\ query.op = "get_optimal_pairing" /\ query.sample = 0
  /\ Len(pairings_dicts) > 0

\* C9: in exact mode get_optimal_pairing on a non-empty candidate list returns
\* the candidate at the first position among those that minimise the sum over
\* k of m(g, k)^2.
C9_FirstMinimizer ==
  ExactOptimalDone =>
     /\ result.kind = "return"
     /\ \E i \in Minimizers(pairings_dicts) :
          /\ \A j \in Minimizers(pairings_dicts) : i <= j
          /\ result.value = pairings_dicts[i]

\* The first candidate is not a minimiser and two later ones tie
C9_Witness ==
  /\ ExactOptimalDone
  /\ 1 \notin Minimizers(pairings_dicts)
  /\ Cardinality(Minimizers(pairings_dicts)) >= 2

\* C10: on an empty candidate list probability_of, get_probability_matrix
\* and get_optimal_pairing each raise the error the code checks emptiness
\* with (ValueError); none divides by zero or returns.
C10_EmptySetNamedError ==
  (pc = "done" /\ pairings_dicts = <<>>) =>
     /\ result.kind = "raise"
     /\ result.error = "ValueError"

====
